---- MODULE Spec2Model ----
(***************************************************************************)
(* A model of the xmlwriter crate (src/src/lib.rs): the XmlWriter state    *)
(* machine, the FmtWriter output adapter with its escaping engine, and     *)
(* the indentation helpers.  Bytes are modelled as one-character strings   *)
(* and the sink as the sequence of bytes written so far.                   *)
(***************************************************************************)
EXTENDS Integers, Sequences, FiniteSets, TLC

VARIABLES
    writer,                 \* FmtWriter.writer: the bytes the sink received
    error_kind,             \* FmtWriter.error_kind
    escape,                 \* FmtWriter.escape
    state,                  \* XmlWriter.state
    preserve_whitespaces,   \* XmlWriter.preserve_whitespaces
    depth_stack,            \* XmlWriter.depth_stack
    opt,                    \* XmlWriter.opt (use_single_quote is read from it)
    status,                 \* "active", "panicked" or "finished" (consumed)
    calls                   \* the public calls made so far, with their result

vars == <<writer, error_kind, escape, state, preserve_whitespaces,
          depth_stack, opt, status, calls>>

----------------------------------------------------------------------------
(* Bounds of the model *)

MaxOps == 4
MaxOpsEsc == 2
MaxTextLen == 2
MaxOpsFail == 3
MaxFuel == 4

----------------------------------------------------------------------------
(* Values *)

None == "None"

\* Option<&str> of DepthData.element_name
Some(x) == <<x>>
Nothing == <<>>

IndentNone == [kind |-> "None", n |-> 0]
IndentTabs == [kind |-> "Tabs", n |-> 0]
Spaces(k) == [kind |-> "Spaces", n |-> k]

Options(q, i, ai) == [use_single_quote |-> q, indent |-> i, attributes_indent |-> ai]

DefaultOptions == Options(FALSE, Spaces(4), IndentNone)

DepthData(name, children) == [element_name |-> name, has_children |-> children]

----------------------------------------------------------------------------
(* The writer as a value: the fields of XmlWriter and FmtWriter, plus the  *)
(* control outcome of the operation being executed:                        *)
(*   ret   "ok" | "io" (io::Error returned) | "fmt" (fmt::Error) | "panic" *)
(*   kind  the io::ErrorKind carried by an "io" result                     *)
(*   fuel  number of sink writes that still succeed (-1: the sink never    *)
(*         fails), fail_kind the ErrorKind the sink fails with            *)
(***************************************************************************)

Ok(m) == m.ret = "ok"

Panic(m) == [m EXCEPT !.ret = "panic"]

\* io::Write::write_all on the sink.  An empty buffer performs no write.
write_all(m, buf) ==
    IF ~Ok(m) \/ buf = <<>> THEN m
    ELSE IF m.fuel = 0
         THEN [m EXCEPT !.ret = "io", !.kind = m.fail_kind, !.fuel = -1]
         ELSE [m EXCEPT !.writer = @ \o buf,
                        !.fuel = IF @ > 0 THEN @ - 1 ELSE @]

----------------------------------------------------------------------------
(* FmtWriter: the escaping engine and the fmt::Write adapter *)

escaped_char_any_context(byte, escape_quotes, use_single_quote) ==
    CASE byte = "&" -> <<"&", "a", "m", "p", ";">>
      [] byte = ">" -> <<"&", "g", "t", ";">>
      [] byte = "<" -> <<"&", "l", "t", ";">>
      [] byte = "\"" /\ ~use_single_quote -> <<"&", "q", "u", "o", "t", ";">>
      [] byte = "'" /\ use_single_quote -> <<"&", "a", "p", "o", "s", ";">>
      [] OTHER -> <<>>

escaped_char_swapped_quotes(byte, escape_quotes, use_single_quote) ==
    CASE byte = "&" -> <<"&", "a", "m", "p", ";">>
      [] byte = ">" -> <<"&", "g", "t", ";">>
      [] byte = "<" -> <<"&", "l", "t", ";">>
      [] byte = "\"" /\ escape_quotes /\ use_single_quote
            -> <<"&", "q", "u", "o", "t", ";">>
      [] byte = "'" /\ escape_quotes /\ ~use_single_quote
            -> <<"&", "a", "p", "o", "s", ";">>
      [] OTHER -> <<>>

\* The match of write_escaped: the replacement of a byte, <<>> for none.
escaped_char(byte, escape_quotes, use_single_quote) ==
    CASE byte = "&" -> <<"&", "a", "m", "p", ";">>
      [] byte = ">" -> <<"&", "g", "t", ";">>
      [] byte = "<" -> <<"&", "l", "t", ";">>
      [] byte = "\"" /\ escape_quotes /\ ~use_single_quote
            -> <<"&", "q", "u", "o", "t", ";">>
      [] byte = "'" /\ escape_quotes /\ use_single_quote
            -> <<"&", "a", "p", "o", "s", ";">>
      [] OTHER -> <<>>

RECURSIVE write_escaped_from_no_skip(_, _, _, _, _)
write_escaped_from_no_skip(m, s, escape_quotes, byte_pos, part_start_pos) ==
    IF ~Ok(m) THEN m
    ELSE IF byte_pos > Len(s)
    THEN write_all(m, SubSeq(s, part_start_pos, Len(s)))
    ELSE LET e == escaped_char(s[byte_pos], escape_quotes, m.use_single_quote)
         IN  IF e # <<>>
             THEN write_escaped_from_no_skip(
                      write_all(write_all(m, SubSeq(s, part_start_pos, byte_pos - 1)), e),
                      s, escape_quotes, byte_pos + 1, byte_pos)
             ELSE write_escaped_from_no_skip(m, s, escape_quotes, byte_pos + 1, part_start_pos)

\* The loop of write_escaped; positions are 1-based, part_start_pos is the
\* first byte of the run that is not written yet.
RECURSIVE write_escaped_from(_, _, _, _, _)
write_escaped_from(m, s, escape_quotes, byte_pos, part_start_pos) ==
    IF ~Ok(m) THEN m
    ELSE IF byte_pos > Len(s)
    THEN write_all(m, SubSeq(s, part_start_pos, Len(s)))
    ELSE LET e == escaped_char(s[byte_pos], escape_quotes, m.use_single_quote)
         IN  IF e # <<>>
             THEN write_escaped_from(
                      write_all(write_all(m, SubSeq(s, part_start_pos, byte_pos - 1)), e),
                      s, escape_quotes, byte_pos + 1, byte_pos + 1)
             ELSE write_escaped_from(m, s, escape_quotes, byte_pos + 1, part_start_pos)

write_escaped(m, s, escape_quotes) ==
    write_escaped_from(m, s, escape_quotes, 1, 1)

write_str_escapes_comment(m, s) ==
    IF ~Ok(m) THEN m
    ELSE IF m.escape = None THEN Panic(m)
    ELSE LET error == CASE m.escape = "AttributeValue" -> write_escaped(m, s, TRUE)
                        [] m.escape = "Text" -> write_escaped(m, s, FALSE)
                        [] m.escape = "Comment" -> write_escaped(m, s, FALSE)
                        [] m.escape = "CData" -> write_all(m, s)
         IN  IF error.ret = "io"
             THEN [error EXCEPT !.error_kind = error.kind, !.ret = "fmt", !.kind = None]
             ELSE error

\* fmt::Write::write_str of FmtWriter
write_str(m, s) ==
    IF ~Ok(m) THEN m
    ELSE IF m.escape = None THEN Panic(m)
    ELSE LET error == CASE m.escape = "AttributeValue" -> write_escaped(m, s, TRUE)
                        [] m.escape = "Text" -> write_escaped(m, s, FALSE)
                        [] m.escape = "Comment" -> write_all(m, s)
                        [] m.escape = "CData" -> write_all(m, s)
         IN  IF error.ret = "io"
             THEN [error EXCEPT !.error_kind = error.kind, !.ret = "fmt", !.kind = None]
             ELSE error

\* A value to format: the pieces its Display implementation hands to
\* write_str one after the other, and whether the implementation then
\* reports fmt::Error of its own.
Fmt(pieces, fails) == [pieces |-> pieces, fails |-> fails]

\* format_args!("{}", text) for a string slice
Display(text) == Fmt(<<text>>, FALSE)

RECURSIVE write_pieces(_, _, _)
write_pieces(m, pieces, i) ==
    IF ~Ok(m) \/ i > Len(pieces) THEN m
    ELSE write_pieces(write_str(m, pieces[i]), pieces, i + 1)

\* fmt::Write::write_fmt
write_fmt(m, fmt) ==
    LET r == write_pieces(m, fmt.pieces, 1)
    IN  IF Ok(r) /\ fmt.fails THEN [r EXCEPT !.ret = "fmt"] ELSE r

take_err_loses_kind(m) ==
    IF m.error_kind = None THEN Panic(m)
    ELSE [m EXCEPT !.escape = None, !.error_kind = None,
                   !.ret = "io", !.kind = "Other"]

take_err(m) ==
    IF m.error_kind = None THEN Panic(m)
    ELSE [m EXCEPT !.escape = None, !.error_kind = None,
                   !.ret = "io", !.kind = m.error_kind]

\* .map_err(|_| self.fmt_writer.take_err())
map_take_err(m) == IF m.ret = "fmt" THEN take_err(m) ELSE m

----------------------------------------------------------------------------
(* XmlWriter: private helpers *)

get_quote_char(m) == IF m.opt.use_single_quote THEN "'" ELSE "\""

write_quote(m) == write_all(m, <<get_quote_char(m)>>)

\* One write_all per emitted space or tab, as in the source's loops.
RECURSIVE write_each(_, _, _)
write_each(m, byte, k) ==
    IF ~Ok(m) \/ k <= 0 THEN m
    ELSE write_each(write_all(m, <<byte>>), byte, k - 1)

write_indent(m, depth, indent) ==
    IF ~Ok(m) THEN m
    ELSE IF indent.kind = "None" \/ m.preserve_whitespaces THEN m
    ELSE IF indent.kind = "Spaces" THEN write_each(m, " ", depth * indent.n)
    ELSE write_each(m, "\t", depth)

write_node_indent_one_deeper(m) ==
    write_indent(m, Len(m.depth_stack) + 1, m.opt.indent)

write_node_indent(m) == write_indent(m, Len(m.depth_stack), m.opt.indent)

write_new_line_ignores_preserve(m) ==
    IF ~Ok(m) THEN m
    ELSE IF m.opt.indent.kind # "None"
    THEN write_all(m, <<"\n">>)
    ELSE m

write_new_line(m) ==
    IF ~Ok(m) THEN m
    ELSE IF m.opt.indent.kind # "None" /\ ~m.preserve_whitespaces
    THEN write_all(m, <<"\n">>)
    ELSE m

set_state(m, s) == IF Ok(m) THEN [m EXCEPT !.state = s] ELSE m

push(m, frame) ==
    IF Ok(m) THEN [m EXCEPT !.depth_stack = Append(@, frame)] ELSE m

write_open_element_no_gt(m) ==
    IF ~Ok(m) THEN m
    ELSE IF m.depth_stack # <<>>
    THEN LET k == Len(m.depth_stack)
         IN  set_state([m EXCEPT !.depth_stack[k].has_children = TRUE], "Document")
    ELSE m

write_open_element_no_mark(m) ==
    IF ~Ok(m) THEN m
    ELSE IF m.depth_stack # <<>>
    THEN set_state(write_all(m, <<">">>), "Document")
    ELSE m

write_open_element_keeps_state(m) ==
    IF ~Ok(m) THEN m
    ELSE IF m.depth_stack # <<>>
    THEN LET k == Len(m.depth_stack)
         IN  write_all([m EXCEPT !.depth_stack[k].has_children = TRUE], <<">">>)
    ELSE m

write_open_element(m) ==
    IF ~Ok(m) THEN m
    ELSE IF m.depth_stack # <<>>
    THEN LET k == Len(m.depth_stack)
             marked == [m EXCEPT !.depth_stack[k].has_children = TRUE]
         IN  set_state(write_all(marked, <<">">>), "Document")
    ELSE m

write_attribute_prefix_own_depth(m, name) ==
    LET a == IF m.opt.attributes_indent.kind = "None"
             THEN write_all(m, <<" ">>)
             ELSE LET nl == write_all(m, <<"\n">>)
                      depth == Len(m.depth_stack)
                      ind == write_indent(nl, depth, m.opt.indent)
                  IN  write_indent(ind, 1, m.opt.attributes_indent)
    IN  write_quote(write_all(write_all(a, name), <<"=">>))

write_attribute_prefix(m, name) ==
    LET a == IF m.opt.attributes_indent.kind = "None"
             THEN write_all(m, <<" ">>)
             ELSE LET nl == write_all(m, <<"\n">>)
                      depth == Len(m.depth_stack)
                      ind == IF depth > 0
                             THEN write_indent(nl, depth - 1, m.opt.indent)
                             ELSE nl
                  IN  write_indent(ind, 1, m.opt.attributes_indent)
    IN  write_quote(write_all(write_all(a, name), <<"=">>))

----------------------------------------------------------------------------
(* XmlWriter: the public operations, as functions of the writer value *)

write_attribute_raw(m, name, value, f_fails) ==
    IF m.state # "Attributes" THEN Panic(m)
    ELSE LET p == write_attribute_prefix(m, name)
             \* f(&mut self.fmt_writer.writer)?: the closure writes value
             \* to the sink, or returns an error of its own
             f == IF Ok(p) /\ f_fails
                  THEN [p EXCEPT !.ret = "io", !.kind = "Other"]
                  ELSE write_all(p, value)
         IN  write_quote(f)

\* write_declaration once its precondition holds (lines 296-312)
write_declaration_body(m) ==
    LET s1 == set_state(m, "Attributes")
        s2 == write_all(s1, <<"<", "?", "x", "m", "l">>)
        s3 == IF Ok(s2)
              THEN write_attribute_raw(s2, <<"v", "e", "r", "s", "i", "o", "n">>,
                                       <<"1", ".", "0">>, FALSE)
              ELSE s2
        s4 == IF Ok(s3)
              THEN write_attribute_raw(s3, <<"e", "n", "c", "o", "d", "i", "n", "g">>,
                                       <<"U", "T", "F", "-", "8">>, FALSE)
              ELSE s3
        s5 == IF Ok(s4)
              THEN write_attribute_raw(s4, <<"s", "t", "a", "n", "d", "a", "l", "o", "n", "e">>,
                                       <<"n", "o">>, FALSE)
              ELSE s4
        s6 == write_all(s5, <<"?", ">">>)
    IN  set_state(s6, "Document")

write_declaration_unguarded(m) == write_declaration_body(m)

write_declaration(m) ==
    IF m.state # "Empty" THEN Panic(m) ELSE write_declaration_body(m)

write_comment_fmt(m, fmt) ==
    LET s1 == IF m.state = "Attributes" THEN write_open_element(m) ELSE m
        s2 == IF Ok(s1) /\ s1.state # "Empty" THEN write_new_line(s1) ELSE s1
        s3 == write_node_indent(s2)
        s4 == write_all(s3, <<"<", "!", "-", "-">>)
        s5 == IF Ok(s4) THEN [s4 EXCEPT !.escape = "Comment"] ELSE s4
        s6 == map_take_err(write_fmt(s5, fmt))
        s7 == write_all(s6, <<"-", "-", ">">>)
        s8 == IF Ok(s7) /\ s7.state = "Attributes"
              THEN push(s7, DepthData(Nothing, FALSE))
              ELSE s7
    IN  set_state(s8, "Document")

write_comment(m, text) == write_comment_fmt(m, Display(text))

start_element_rejects_after_document(m, name) ==
    IF m.state = "Document" /\ m.depth_stack = <<>> THEN Panic(m)
    ELSE
    LET s1 == IF m.state = "Attributes" THEN write_open_element(m) ELSE m
        s2 == IF Ok(s1) /\ s1.state # "Empty" THEN write_new_line(s1) ELSE s1
        s3 == IF Ok(s2) /\ ~s2.preserve_whitespaces THEN write_node_indent(s2) ELSE s2
        s4 == write_all(s3, <<"<">>)
        s5 == write_all(s4, name)
        s6 == push(s5, DepthData(Some(name), FALSE))
    IN  set_state(s6, "Attributes")

start_element(m, name) ==
    LET s1 == IF m.state = "Attributes" THEN write_open_element(m) ELSE m
        s2 == IF Ok(s1) /\ s1.state # "Empty" THEN write_new_line(s1) ELSE s1
        s3 == IF Ok(s2) /\ ~s2.preserve_whitespaces THEN write_node_indent(s2) ELSE s2
        s4 == write_all(s3, <<"<">>)
        s5 == write_all(s4, name)
        s6 == push(s5, DepthData(Some(name), FALSE))
    IN  set_state(s6, "Attributes")

\* write_attribute_fmt once its precondition holds (lines 450-455)
write_attribute_fmt_body(m, name, fmt) ==
    LET s1 == write_attribute_prefix(m, name)
        s2 == IF Ok(s1) THEN [s1 EXCEPT !.escape = "AttributeValue"] ELSE s1
        s3 == map_take_err(write_fmt(s2, fmt))
    IN  write_quote(s3)

write_attribute_fmt_unguarded(m, name, fmt) == write_attribute_fmt_body(m, name, fmt)

write_attribute_fmt(m, name, fmt) ==
    IF m.state # "Attributes" THEN Panic(m)
    ELSE write_attribute_fmt_body(m, name, fmt)

write_attribute(m, name, value) == write_attribute_fmt(m, name, Display(value))

set_preserve_whitespaces(m, preserve) ==
    [m EXCEPT !.preserve_whitespaces = preserve]

write_text_fmt_impl_body_reopens(m, fmt, cdata) ==
    LET s1 == IF m.state = "Attributes" THEN write_open_element(m) ELSE m
        s2 == IF Ok(s1) /\ cdata
              THEN write_all(s1, <<"<", "!", "[", "C", "D", "A", "T", "A", "[">>)
              ELSE s1
        s3 == IF Ok(s2) /\ s2.state # "Empty" THEN write_new_line(s2) ELSE s2
        s4 == write_node_indent(s3)
        s5 == IF Ok(s4)
              THEN [s4 EXCEPT !.escape = IF cdata THEN "CData" ELSE "Text"]
              ELSE s4
        s6 == map_take_err(write_fmt(s5, fmt))
        s7 == IF Ok(s6) /\ s6.state = "Attributes"
              THEN push(s6, DepthData(Nothing, FALSE))
              ELSE s6
    IN  set_state(s7, IF cdata THEN "CData" ELSE "Document")

write_text_fmt_impl_body_to_document(m, fmt, cdata) ==
    LET s1 == IF m.state = "Attributes" THEN write_open_element(m) ELSE m
        s2 == IF Ok(s1) /\ cdata /\ s1.state # "CData"
              THEN write_all(s1, <<"<", "!", "[", "C", "D", "A", "T", "A", "[">>)
              ELSE s1
        s3 == IF Ok(s2) /\ s2.state # "Empty" THEN write_new_line(s2) ELSE s2
        s4 == write_node_indent(s3)
        s5 == IF Ok(s4)
              THEN [s4 EXCEPT !.escape = IF cdata THEN "CData" ELSE "Text"]
              ELSE s4
        s6 == map_take_err(write_fmt(s5, fmt))
        s7 == IF Ok(s6) /\ s6.state = "Attributes"
              THEN push(s6, DepthData(Nothing, FALSE))
              ELSE s6
    IN  set_state(s7, "Document")

\* write_text_fmt_impl once its precondition holds (lines 602-630)
write_text_fmt_impl_body(m, fmt, cdata) ==
    LET s1 == IF m.state = "Attributes" THEN write_open_element(m) ELSE m
        s2 == IF Ok(s1) /\ cdata /\ s1.state # "CData"
              THEN write_all(s1, <<"<", "!", "[", "C", "D", "A", "T", "A", "[">>)
              ELSE s1
        s3 == IF Ok(s2) /\ s2.state # "Empty" THEN write_new_line(s2) ELSE s2
        s4 == write_node_indent(s3)
        s5 == IF Ok(s4)
              THEN [s4 EXCEPT !.escape = IF cdata THEN "CData" ELSE "Text"]
              ELSE s4
        s6 == map_take_err(write_fmt(s5, fmt))
        s7 == IF Ok(s6) /\ s6.state = "Attributes"
              THEN push(s6, DepthData(Nothing, FALSE))
              ELSE s6
    IN  set_state(s7, IF cdata THEN "CData" ELSE "Document")

write_text_fmt_impl_state_only(m, fmt, cdata) ==
    IF m.state = "Empty" THEN Panic(m)
    ELSE write_text_fmt_impl_body(m, fmt, cdata)

write_text_fmt_impl(m, fmt, cdata) ==
    IF m.state = "Empty" \/ m.depth_stack = <<>> THEN Panic(m)
    ELSE write_text_fmt_impl_body(m, fmt, cdata)

write_text_fmt(m, fmt) == write_text_fmt_impl(m, fmt, FALSE)

write_text(m, text) == write_text_fmt(m, Display(text))

\* text.contains("]]>")
RECURSIVE contains_from(_, _, _)
contains_from(text, pat, i) ==
    IF i + Len(pat) - 1 > Len(text) THEN FALSE
    ELSE IF SubSeq(text, i, i + Len(pat) - 1) = pat THEN TRUE
    ELSE contains_from(text, pat, i + 1)

contains(text, pat) == contains_from(text, pat, 1)

CDataEnd == <<"]", "]", ">">>

write_cdata_text_unchecked(m, text) ==
    write_text_fmt_impl(m, Display(text), TRUE)

write_cdata_text(m, text) ==
    IF contains(text, CDataEnd) THEN Panic(m)
    ELSE write_text_fmt_impl(m, Display(text), TRUE)

end_element(m) ==
    IF ~Ok(m) THEN m
    ELSE LET s0 ==
           IF m.depth_stack # <<>>
           THEN LET k == Len(m.depth_stack)
                    depth == m.depth_stack[k]
                    popped == [m EXCEPT !.depth_stack = SubSeq(@, 1, k - 1)]
                IN  IF depth.has_children
                    THEN LET s1 == IF ~popped.preserve_whitespaces
                                   THEN write_node_indent(write_new_line(popped))
                                   ELSE popped
                             s2 == IF Ok(s1) /\ s1.state = "CData"
                                   THEN write_all(s1, CDataEnd)
                                   ELSE s1
                             s3 == write_all(s2, <<"<", "/">>)
                             s4 == IF Ok(s3)
                                   THEN IF depth.element_name = Nothing
                                        THEN Panic(s3)
                                        ELSE write_all(s3, depth.element_name[1])
                                   ELSE s3
                         IN  write_all(s4, <<">">>)
                    ELSE write_all(popped, <<"/", ">">>)
           ELSE m
         IN  set_state(s0, "Document")

end_all_once(m) ==
    IF ~Ok(m) \/ m.depth_stack = <<>> THEN m ELSE end_element(m)

RECURSIVE end_all(_)
end_all(m) ==
    IF ~Ok(m) \/ m.depth_stack = <<>> THEN m
    ELSE end_all(end_element(m))

end_document(m) == write_new_line(end_all(m))

----------------------------------------------------------------------------
(* The state machine: one action per public operation *)

\* The sink's behaviour during one operation: it never fails, or its
\* (fuel+1)-th write fails with fail_kind.
NeverFails == [fuel |-> -1, fail_kind |-> None]

\* The writer value at the start of an operation
Self(sink) ==
    [writer |-> writer, error_kind |-> error_kind, escape |-> escape,
     use_single_quote |-> opt.use_single_quote,
     state |-> state, preserve_whitespaces |-> preserve_whitespaces,
     depth_stack |-> depth_stack, opt |-> opt,
     ret |-> "ok", kind |-> None,
     fuel |-> sink.fuel, fail_kind |-> sink.fail_kind]

\* The record of a call: its arguments, its result, and the ErrorKind of
\* the sink write that failed during it (None if none did)
Call(op, name, text, flag, r) ==
    [op |-> op, name |-> name, text |-> text, flag |-> flag,
     ret |-> r.ret, kind |-> r.kind,
     sink |-> IF r.fuel = -1 THEN r.fail_kind ELSE None]

\* The operation returns (or unwinds) leaving the writer as r
Return(call, r) ==
    /\ writer' = r.writer
    /\ error_kind' = r.error_kind
    /\ escape' = r.escape
    /\ state' = r.state
    /\ preserve_whitespaces' = r.preserve_whitespaces
    /\ depth_stack' = r.depth_stack
    /\ opt' = opt
    /\ calls' = Append(calls, call)

Names == {<<"a">>, <<"b">>}
AttrNames == {<<"k">>}
Texts == {<<"<", "&">>}
AttrValues == {<<"x">>}
CDataTexts == {<<"x">>, <<"x", "]", "]", ">">>}
CommentTexts == {<<"c">>}
\* The configurations explored: every quote style, element indent and
\* attribute indent, and every pair of them, occurs in one of these.
InitOptions ==
    {Options(FALSE, Spaces(2), IndentNone), Options(TRUE, Spaces(2), Spaces(1)),
     Options(TRUE, IndentNone, IndentNone), Options(FALSE, IndentNone, Spaces(1)),
     Options(FALSE, IndentTabs, Spaces(1)), Options(TRUE, IndentTabs, IndentNone)}

Active == status = "active" /\ Len(calls) < MaxOps

Outcome(r) == status' = IF r.ret = "panic" THEN "panicked" ELSE status

WriteDeclaration(sink) ==
    /\ Active
    /\ LET r == write_declaration(Self(sink))
       IN  Return(Call("write_declaration", <<>>, <<>>, FALSE, r), r) /\ Outcome(r)

WriteComment(sink) ==
    /\ Active
    /\ \E text \in CommentTexts :
         LET r == write_comment(Self(sink), text)
         IN  Return(Call("write_comment", <<>>, text, FALSE, r), r) /\ Outcome(r)

StartElement(sink) ==
    /\ Active
    /\ \E name \in Names :
         LET r == start_element(Self(sink), name)
         IN  Return(Call("start_element", name, <<>>, FALSE, r), r) /\ Outcome(r)

WriteAttribute(sink) ==
    /\ Active
    /\ \E name \in AttrNames, value \in AttrValues :
         LET r == write_attribute(Self(sink), name, value)
         IN  Return(Call("write_attribute", name, value, FALSE, r), r) /\ Outcome(r)

WriteAttributeRaw(sink) ==
    /\ Active
    /\ \E name \in AttrNames, value \in AttrValues :
         LET r == write_attribute_raw(Self(sink), name, value, FALSE)
         IN  Return(Call("write_attribute_raw", name, value, FALSE, r), r) /\ Outcome(r)

SetPreserveWhitespaces ==
    /\ Active
    /\ \E preserve \in BOOLEAN :
         LET r == set_preserve_whitespaces(Self(NeverFails), preserve)
         IN  Return(Call("set_preserve_whitespaces", <<>>, <<>>, preserve, r), r) /\ Outcome(r)

WriteText(sink) ==
    /\ Active
    /\ \E text \in Texts :
         LET r == write_text(Self(sink), text)
         IN  Return(Call("write_text", <<>>, text, FALSE, r), r) /\ Outcome(r)

WriteCdataText(sink) ==
    /\ Active
    /\ \E text \in CDataTexts :
         LET r == write_cdata_text(Self(sink), text)
         IN  Return(Call("write_cdata_text", <<>>, text, FALSE, r), r) /\ Outcome(r)

EndElement(sink) ==
    /\ Active
    /\ LET r == end_element(Self(sink))
       IN  Return(Call("end_element", <<>>, <<>>, FALSE, r), r) /\ Outcome(r)

\* end_document consumes the writer, whatever it returns
EndDocument(sink) ==
    /\ status = "active"
    /\ LET r == end_document(Self(sink))
       IN  /\ Return(Call("end_document", <<>>, <<>>, FALSE, r), r)
           /\ status' = IF r.ret = "panic" THEN "panicked" ELSE "finished"

\* XmlWriter::new
Init ==
    /\ writer = <<>>
    /\ error_kind = None
    /\ escape = None
    /\ state = "Empty"
    /\ preserve_whitespaces = FALSE
    /\ depth_stack = <<>>
    /\ opt \in InitOptions
    /\ status = "active"
    /\ calls = <<>>

Next ==
    \/ WriteDeclaration(NeverFails)
    \/ WriteComment(NeverFails)
    \/ StartElement(NeverFails)
    \/ WriteAttribute(NeverFails)
    \/ WriteAttributeRaw(NeverFails)
    \/ SetPreserveWhitespaces
    \/ WriteText(NeverFails)
    \/ WriteCdataText(NeverFails)
    \/ EndElement(NeverFails)
    \/ EndDocument(NeverFails)

Spec == Init /\ [][Next]_vars

----------------------------------------------------------------------------
(* The writer configured as in the test disabled_self_close: the default   *)
(* options with enable_self_closing set to false.  No operation of the     *)
(* writer reads that option.                                               *)

WithSelfClosing(o, enable) ==
    [use_single_quote |-> o.use_single_quote, indent |-> o.indent,
     attributes_indent |-> o.attributes_indent, enable_self_closing |-> enable]

InitSelfClose ==
    /\ writer = <<>>
    /\ error_kind = None
    /\ escape = None
    /\ state = "Empty"
    /\ preserve_whitespaces = FALSE
    /\ depth_stack = <<>>
    /\ opt = WithSelfClosing(DefaultOptions, FALSE)
    /\ status = "active"
    /\ calls = <<>>

SpecSelfClose == InitSelfClose /\ [][Next]_vars

----------------------------------------------------------------------------
(* The writer under every combination of element indent and attribute      *)
(* indent                                                                  *)

IndentStyles == {IndentNone, Spaces(2), IndentTabs}
AttrIndentStyles == {IndentNone, Spaces(1), IndentTabs}

InitIndent ==
    /\ writer = <<>>
    /\ error_kind = None
    /\ escape = None
    /\ state = "Empty"
    /\ preserve_whitespaces = FALSE
    /\ depth_stack = <<>>
    /\ opt \in {Options(FALSE, i, ai) : i \in IndentStyles, ai \in AttrIndentStyles}
    /\ status = "active"
    /\ calls = <<>>

SpecIndent == InitIndent /\ [][Next]_vars

----------------------------------------------------------------------------
(* The escaping engine exercised on every short text: an element is        *)
(* started and text nodes are written into it, each text over the bytes    *)
(* the engine distinguishes and cut into the pieces a formatter may hand   *)
(* to write_str.                                                           *)

EscAlphabet == {"&", "<", ">", "\"", "'", "x"}

EscTexts ==
    UNION {[1..k -> EscAlphabet] : k \in 0..MaxTextLen}
        \cup {<<"&", "a", "m", "p", ";">>}

ActiveEsc == status = "active" /\ Len(calls) < MaxOpsEsc

EscStartElement ==
    /\ ActiveEsc
    /\ LET r == start_element(Self(NeverFails), <<"a">>)
       IN  Return(Call("start_element", <<"a">>, <<>>, FALSE, r), r) /\ Outcome(r)

EscWriteTextFmt ==
    /\ ActiveEsc
    /\ \E text \in EscTexts :
         \E k \in 0..Len(text) :
           LET fmt == Fmt(<<SubSeq(text, 1, k), SubSeq(text, k + 1, Len(text))>>, FALSE)
               r == write_text_fmt(Self(NeverFails), fmt)
           IN  Return(Call("write_text_fmt", <<>>, text, FALSE, r), r) /\ Outcome(r)

EscWriteAttributeFmt ==
    /\ ActiveEsc
    /\ \E text \in EscTexts :
         \E k \in 0..Len(text) :
           LET fmt == Fmt(<<SubSeq(text, 1, k), SubSeq(text, k + 1, Len(text))>>, FALSE)
               r == write_attribute_fmt(Self(NeverFails), <<"k">>, fmt)
           IN  Return(Call("write_attribute_fmt", <<"k">>, text, FALSE, r), r) /\ Outcome(r)

InitEsc ==
    /\ writer = <<>>
    /\ error_kind = None
    /\ escape = None
    /\ state = "Empty"
    /\ preserve_whitespaces = FALSE
    /\ depth_stack = <<>>
    /\ opt \in {Options(q, Spaces(2), IndentNone) : q \in BOOLEAN}
    /\ status = "active"
    /\ calls = <<>>

NextEsc == EscStartElement \/ EscWriteTextFmt \/ EscWriteAttributeFmt

SpecEsc == InitEsc /\ [][NextEsc]_vars

----------------------------------------------------------------------------
(* Comments and CDATA sections written with content made of the bytes the  *)
(* escaping engine substitutes in other contexts, of hyphens and of the    *)
(* bytes of the CDATA terminator.                                          *)

VerbTexts ==
    {<<>>, <<"&">>, <<"<">>, <<">">>, <<"\"">>, <<"'">>, <<"-", "-">>,
     <<"x", "-", "-", "y">>, <<"&", "a", "m", "p", ";">>,
     <<"<", "x", ">", "&", "\"", "'">>, <<"]", "]">>}

ActiveVerb == status = "active" /\ Len(calls) < MaxOpsEsc

VerbStartElement ==
    /\ ActiveVerb
    /\ LET r == start_element(Self(NeverFails), <<"a">>)
       IN  Return(Call("start_element", <<"a">>, <<>>, FALSE, r), r) /\ Outcome(r)

VerbWriteComment ==
    /\ ActiveVerb
    /\ \E text \in VerbTexts :
         LET r == write_comment(Self(NeverFails), text)
         IN  Return(Call("write_comment", <<>>, text, FALSE, r), r) /\ Outcome(r)

VerbWriteCommentFmt ==
    /\ ActiveVerb
    /\ \E text \in VerbTexts :
         \E k \in 0..Len(text) :
           LET fmt == Fmt(<<SubSeq(text, 1, k), SubSeq(text, k + 1, Len(text))>>, FALSE)
               r == write_comment_fmt(Self(NeverFails), fmt)
           IN  Return(Call("write_comment_fmt", <<>>, text, FALSE, r), r) /\ Outcome(r)

VerbWriteCdataText ==
    /\ ActiveVerb
    /\ \E text \in VerbTexts :
         LET r == write_cdata_text(Self(NeverFails), text)
         IN  Return(Call("write_cdata_text", <<>>, text, FALSE, r), r) /\ Outcome(r)

InitVerb ==
    /\ writer = <<>>
    /\ error_kind = None
    /\ escape = None
    /\ state = "Empty"
    /\ preserve_whitespaces = FALSE
    /\ depth_stack = <<>>
    /\ opt \in {Options(q, i, IndentNone) : q \in BOOLEAN, i \in {IndentNone, Spaces(2)}}
    /\ status = "active"
    /\ calls = <<>>

NextVerb ==
    \/ VerbStartElement
    \/ VerbWriteComment
    \/ VerbWriteCommentFmt
    \/ VerbWriteCdataText

SpecVerbatim == InitVerb /\ [][NextVerb]_vars

----------------------------------------------------------------------------
(* The writer over a sink that may fail: during each operation the sink    *)
(* either accepts every write or fails one of the first MaxFuel + 1 writes *)
(* (BrokenPipe for the 1st, 3rd, ... write of the operation, WriteZero for *)
(* the 2nd, 4th, ...); the caller goes on using the writer after an error. *)
(* A formatted value may also report fmt::Error of its own.                *)

ErrorKindAt(k) == IF k % 2 = 0 THEN "BrokenPipe" ELSE "WriteZero"

Sinks ==
    {NeverFails} \cup {[fuel |-> k, fail_kind |-> ErrorKindAt(k)] : k \in 0..MaxFuel}

ActiveFail == status = "active" /\ Len(calls) < MaxOpsFail

FailWriteDeclaration(sink) ==
    /\ ActiveFail
    /\ LET r == write_declaration(Self(sink))
       IN  Return(Call("write_declaration", <<>>, <<>>, FALSE, r), r) /\ Outcome(r)

FailWriteCommentFmt(sink) ==
    /\ ActiveFail
    /\ \E fails \in BOOLEAN :
         LET r == write_comment_fmt(Self(sink), Fmt(<<<<"c">>>>, fails))
         IN  Return(Call("write_comment_fmt", <<>>, <<"c">>, fails, r), r) /\ Outcome(r)

FailStartElement(sink) ==
    /\ ActiveFail
    /\ LET r == start_element(Self(sink), <<"a">>)
       IN  Return(Call("start_element", <<"a">>, <<>>, FALSE, r), r) /\ Outcome(r)

FailWriteAttributeFmt(sink) ==
    /\ ActiveFail
    /\ \E fails \in BOOLEAN :
         LET r == write_attribute_fmt(Self(sink), <<"k">>, Fmt(<<<<"<">>>>, fails))
         IN  Return(Call("write_attribute_fmt", <<"k">>, <<"<">>, fails, r), r) /\ Outcome(r)

FailWriteAttributeRaw(sink) ==
    /\ ActiveFail
    /\ LET r == write_attribute_raw(Self(sink), <<"k">>, <<"x">>, FALSE)
       IN  Return(Call("write_attribute_raw", <<"k">>, <<"x">>, FALSE, r), r) /\ Outcome(r)

FailWriteTextFmt(sink) ==
    /\ ActiveFail
    /\ \E fails \in BOOLEAN :
         LET r == write_text_fmt(Self(sink), Fmt(<<<<"<">>>>, fails))
         IN  Return(Call("write_text_fmt", <<>>, <<"<">>, fails, r), r) /\ Outcome(r)

FailWriteCdataText(sink) ==
    /\ ActiveFail
    /\ LET r == write_cdata_text(Self(sink), <<"x">>)
       IN  Return(Call("write_cdata_text", <<>>, <<"x">>, FALSE, r), r) /\ Outcome(r)

FailEndElement(sink) ==
    /\ ActiveFail
    /\ LET r == end_element(Self(sink))
       IN  Return(Call("end_element", <<>>, <<>>, FALSE, r), r) /\ Outcome(r)

FailEndDocument(sink) ==
    /\ status = "active"
    /\ LET r == end_document(Self(sink))
       IN  /\ Return(Call("end_document", <<>>, <<>>, FALSE, r), r)
           /\ status' = IF r.ret = "panic" THEN "panicked" ELSE "finished"

InitFail ==
    /\ writer = <<>>
    /\ error_kind = None
    /\ escape = None
    /\ state = "Empty"
    /\ preserve_whitespaces = FALSE
    /\ depth_stack = <<>>
    /\ opt = Options(FALSE, Spaces(1), IndentNone)
    /\ status = "active"
    /\ calls = <<>>

NextFail ==
    \E sink \in Sinks :
        \/ FailWriteDeclaration(sink)
        \/ FailWriteCommentFmt(sink)
        \/ FailStartElement(sink)
        \/ FailWriteAttributeFmt(sink)
        \/ FailWriteAttributeRaw(sink)
        \/ FailWriteTextFmt(sink)
        \/ FailWriteCdataText(sink)
        \/ FailEndElement(sink)
        \/ FailEndDocument(sink)

SpecFail == InitFail /\ [][NextFail]_vars

----------------------------------------------------------------------------
(* CDATA sections written by several write_cdata_text calls, with texts    *)
(* that hold parts of the CDATA terminator, and interleaved with the other *)
(* node operations.                                                        *)

MergeTexts == {<<"x">>, <<"]", "]">>, <<">">>}

MergeWriteCdataText ==
    /\ Active
    /\ \E text \in MergeTexts :
         LET r == write_cdata_text(Self(NeverFails), text)
         IN  Return(Call("write_cdata_text", <<>>, text, FALSE, r), r) /\ Outcome(r)

InitCData ==
    /\ writer = <<>>
    /\ error_kind = None
    /\ escape = None
    /\ state = "Empty"
    /\ preserve_whitespaces = FALSE
    /\ depth_stack = <<>>
    /\ opt \in {Options(FALSE, i, IndentNone) : i \in {IndentNone, Spaces(2)}}
    /\ status = "active"
    /\ calls = <<>>

NextCData ==
    \/ StartElement(NeverFails)
    \/ MergeWriteCdataText
    \/ WriteText(NeverFails)
    \/ WriteComment(NeverFails)
    \/ SetPreserveWhitespaces
    \/ EndElement(NeverFails)
    \/ EndDocument(NeverFails)

SpecCData == InitCData /\ [][NextCData]_vars

----------------------------------------------------------------------------
(* Reading the emitted bytes back as XML markup *)

StartsWith(out, i, pat) ==
    /\ i + Len(pat) - 1 <= Len(out)
    /\ SubSeq(out, i, i + Len(pat) - 1) = pat

\* The position of the first occurrence of pat at or after i, 0 if none
RECURSIVE Find(_, _, _)
Find(out, i, pat) ==
    IF i + Len(pat) - 1 > Len(out) THEN 0
    ELSE IF StartsWith(out, i, pat) THEN i
    ELSE Find(out, i + 1, pat)

\* The position of the first byte at or after i that ends a tag name
RECURSIVE NameEnd(_, _)
NameEnd(out, i) ==
    IF i > Len(out) THEN i
    ELSE IF out[i] \in {" ", "\n", "\t", ">", "/"} THEN i
    ELSE NameEnd(out, i + 1)

\* The position of the ">" that ends the tag scanned from i, skipping
\* quoted attribute values (q is the open quote, "" outside a value);
\* 0 if the tag does not end.
RECURSIVE TagEnd(_, _, _)
TagEnd(out, i, q) ==
    IF i > Len(out) THEN 0
    ELSE IF q # "" THEN TagEnd(out, i + 1, IF out[i] = q THEN "" ELSE q)
    ELSE IF out[i] \in {"\"", "'"} THEN TagEnd(out, i + 1, out[i])
    ELSE IF out[i] = ">" THEN i
    ELSE IF out[i] = "<" THEN 0
    ELSE TagEnd(out, i + 1, q)

\* Scans the markup from position i.  acc.open is the stack of the names
\* of the elements opened and not closed, acc.started and acc.closed count
\* the start tags and the closes (end tags and self-closed tags), acc.ok
\* is FALSE once the markup read is not well nested.
RECURSIVE Scan(_, _, _)
Scan(out, i, acc) ==
    LET bad == [acc EXCEPT !.ok = FALSE]
        Skip(open, close) ==
            LET j == Find(out, i + Len(open), close)
            IN  IF j = 0 THEN bad ELSE Scan(out, j + Len(close), acc)
    IN
    IF ~acc.ok \/ i > Len(out) THEN acc
    ELSE IF StartsWith(out, i, <<"<", "!", "-", "-">>)
    THEN Skip(<<"<", "!", "-", "-">>, <<"-", "-", ">">>)
    ELSE IF StartsWith(out, i, <<"<", "!", "[", "C", "D", "A", "T", "A", "[">>)
    THEN Skip(<<"<", "!", "[", "C", "D", "A", "T", "A", "[">>, <<"]", "]", ">">>)
    ELSE IF StartsWith(out, i, <<"<", "?">>)
    THEN Skip(<<"<", "?">>, <<"?", ">">>)
    ELSE IF StartsWith(out, i, <<"<", "/">>)
    THEN LET e == NameEnd(out, i + 2)
             name == SubSeq(out, i + 2, e - 1)
             k == Len(acc.open)
         IN  IF e > Len(out) \/ out[e] # ">" \/ k = 0 THEN bad
             ELSE IF acc.open[k] # name THEN bad
             ELSE Scan(out, e + 1, [acc EXCEPT !.open = SubSeq(@, 1, k - 1),
                                               !.closed = @ + 1])
    ELSE IF out[i] = "<"
    THEN LET e == NameEnd(out, i + 1)
             name == SubSeq(out, i + 1, e - 1)
             t == TagEnd(out, e, "")
         IN  IF name = <<>> \/ t = 0 THEN bad
             ELSE IF out[t - 1] = "/"
             THEN Scan(out, t + 1, [acc EXCEPT !.started = @ + 1, !.closed = @ + 1])
             ELSE Scan(out, t + 1, [acc EXCEPT !.open = Append(@, name),
                                               !.started = @ + 1])
    ELSE IF out[i] = ">" THEN bad
    ELSE Scan(out, i + 1, acc)

Markup(out) == Scan(out, 1, [ok |-> TRUE, open |-> <<>>, started |-> 0, closed |-> 0])

\* The number of calls of the operation op made so far
NumCalls(op) == Cardinality({i \in 1..Len(calls) : calls[i].op = op})

Last == calls[Len(calls)]

Returned(op) == calls # <<>> /\ Last.op = op /\ Last.ret = "ok"

Panicked(op) == calls # <<>> /\ Last.op = op /\ Last.ret = "panic"

----------------------------------------------------------------------------
(* C1: after any sequence of start_element, write_attribute, write_text,   *)
(* write_comment and end_element calls followed by end_document, the       *)
(* output read back as markup is correctly nested: every end tag names the *)
(* innermost open element, every start tag is terminated exactly once and  *)
(* every started element is closed exactly once.                           *)

C1Ops == {"start_element", "write_attribute", "write_text", "write_comment",
          "end_element", "end_document"}

C1Case ==
    /\ status = "finished"
    /\ \A i \in 1..Len(calls) : calls[i].op \in C1Ops /\ calls[i].ret = "ok"

C1_CorrectlyNested ==
    C1Case =>
        LET r == Markup(writer)
        IN  /\ r.ok
            /\ r.open = <<>>
            /\ r.started = NumCalls("start_element")
            /\ r.closed = r.started

C1_Witness ==
    /\ C1Case
    /\ NumCalls("start_element") >= 2
    /\ \E i, j \in 1..Len(calls) : calls[i].name = <<"a">> /\ calls[j].name = <<"b">>
    /\ NumCalls("write_text") >= 1
    /\ Markup(writer).closed = 2
    /\ \E i \in 1..Len(writer) - 1 : writer[i] = "<" /\ writer[i + 1] = "/"

----------------------------------------------------------------------------
(* Steps of the state machine, as seen from a pair of states *)

\* The step is a call of op (the call is the last of calls')
Step(op) ==
    /\ Len(calls') = Len(calls) + 1
    /\ calls'[Len(calls')].op = op

StepRet == calls'[Len(calls')].ret

\* The fields of the writer
fields == <<writer, error_kind, escape, state, preserve_whitespaces,
            depth_stack, opt>>

\* The bytes the step appended to the sink
Emitted == SubSeq(writer', Len(writer) + 1, Len(writer'))

----------------------------------------------------------------------------
(* C2: end_element called on an empty nesting stack returns success, emits *)
(* no bytes and leaves every field of the writer unchanged (so whatever is *)
(* called next behaves as if the call had not been made), in every         *)
(* lifecycle state, Empty included.                                        *)

C2_EndElementOnEmptyStackIsNoOp ==
    [][(Step("end_element") /\ depth_stack = <<>>)
          => (StepRet = "ok" /\ UNCHANGED fields)]_vars

----------------------------------------------------------------------------
(* C3: while the writer exists, the length of the nesting stack is the     *)
(* number of unmatched start_element calls, and a step of any operation    *)
(* other than start_element, end_element and end_document leaves the       *)
(* length of the stack unchanged.                                          *)

\* start_element calls not matched by a later end_element, counting from
\* the call log alone: an end_element with nothing to match matches nothing
RECURSIVE Unmatched(_)
Unmatched(log) ==
    IF log = <<>> THEN 0
    ELSE LET c == log[Len(log)]
             u == Unmatched(SubSeq(log, 1, Len(log) - 1))
         IN  IF c.ret # "ok" THEN u
             ELSE IF c.op = "start_element" THEN u + 1
             ELSE IF c.op = "end_element" /\ u > 0 THEN u - 1
             ELSE u

C3_StackLengthIsUnmatchedStarts ==
    [][/\ status' # "finished" => Len(depth_stack') = Unmatched(calls')
       /\ (\E op \in {"write_declaration", "write_comment", "write_attribute",
                      "write_attribute_raw", "write_text", "write_cdata_text",
                      "set_preserve_whitespaces"} : Step(op))
             => Len(depth_stack') = Len(depth_stack)]_vars

C3_Witness ==
    /\ status = "active"
    /\ Len(depth_stack) = 1
    /\ NumCalls("start_element") = 2
    /\ NumCalls("end_element") = 1
    /\ Returned("write_comment")

----------------------------------------------------------------------------
(* C4: end_document called with k elements open emits exactly k closes,    *)
(* innermost element first (a self-close for a pending start tag, an end   *)
(* tag carrying the element's name otherwise), leaves the nesting stack    *)
(* empty and returns the sink.                                             *)

\* The names of the open elements, outermost first
OpenNames == [i \in 1..Len(depth_stack) |-> depth_stack[i].element_name[1]]

C4_EndDocumentClosesAll ==
    [][Step("end_document") =>
         LET k == Len(depth_stack)
             pending == k > 0 /\ ~depth_stack[k].has_children
             rest == IF pending THEN SubSeq(Emitted, 3, Len(Emitted)) ELSE Emitted
             \* an open CDATA section is closed by the first end tag
             body == IF state = "CData"
                     THEN <<"<", "!", "[", "C", "D", "A", "T", "A", "[">> \o rest
                     ELSE rest
             r == Scan(body, 1,
                       [ok |-> TRUE,
                        open |-> IF pending THEN SubSeq(OpenNames, 1, k - 1) ELSE OpenNames,
                        started |-> 0, closed |-> 0])
         IN  /\ StepRet = "ok"
             /\ status' = "finished"
             /\ depth_stack' = <<>>
             /\ pending => StartsWith(Emitted, 1, <<"/", ">">>)
             /\ r.ok
             /\ r.open = <<>>
             /\ r.started = 0
             /\ r.closed = IF pending THEN k - 1 ELSE k]_vars

C4_Witness ==
    /\ status = "finished"
    /\ Returned("end_document")
    /\ NumCalls("start_element") = 3
    /\ NumCalls("end_element") = 0
    /\ Markup(writer).closed = 3
    /\ \E i, j \in 1..Len(calls) : calls[i].name = <<"a">> /\ calls[j].name = <<"b">>

----------------------------------------------------------------------------
(* C5: write_declaration called in a state other than Empty panics without *)
(* emitting a byte; the output holds at most one declaration, and a        *)
(* declaration is the first thing in the output.                           *)

XmlDecl == <<"<", "?", "x", "m", "l">>

\* The positions in out where a declaration starts
DeclPositions(out) == {i \in 1..Len(out) : StartsWith(out, i, XmlDecl)}

C5_DeclarationOnlyWhenEmpty ==
    [][/\ (Step("write_declaration") /\ state # "Empty")
             => (StepRet = "panic" /\ UNCHANGED fields)
       /\ DeclPositions(writer') \subseteq {1}]_vars

C5_Witness ==
    /\ Panicked("write_declaration")
    /\ DeclPositions(writer) = {1}
    /\ NumCalls("write_declaration") = 2

----------------------------------------------------------------------------
(* C6: for every configuration, write_declaration called in state Empty    *)
(* emits exactly <?xml version=Q1.0Q encoding=QUTF-8Q standalone=QnoQ?>    *)
(* (Q the configured quote) on one line, and leaves the writer in state    *)
(* Document with an empty nesting stack.                                   *)

DeclarationText(q) ==
    <<"<", "?", "x", "m", "l", " ", "v", "e", "r", "s", "i", "o", "n", "=", q, "1", ".", "0", q,
      " ", "e", "n", "c", "o", "d", "i", "n", "g", "=", q, "U", "T", "F", "-", "8", q,
      " ", "s", "t", "a", "n", "d", "a", "l", "o", "n", "e", "=", q, "n", "o", q, "?", ">">>

C6_DeclarationText ==
    [][(Step("write_declaration") /\ state = "Empty")
          => /\ StepRet = "ok"
             /\ Emitted = DeclarationText(IF opt.use_single_quote THEN "'" ELSE "\"")
             /\ state' = "Document"
             /\ depth_stack' = <<>>]_vars

----------------------------------------------------------------------------
(* C7: write_attribute, write_attribute_fmt and write_attribute_raw called *)
(* in a state other than Attributes panic, emitting nothing and changing   *)
(* no field of the writer.                                                 *)

C7_AttributeOnlyInAttributes ==
    [][((Step("write_attribute") \/ Step("write_attribute_raw")) /\ state # "Attributes")
          => (StepRet = "panic" /\ UNCHANGED fields)]_vars

C7_Witness ==
    /\ Panicked("write_attribute")
    /\ NumCalls("start_element") = 1
    /\ NumCalls("write_text") = 1
    /\ state = "Document"
    /\ depth_stack # <<>>

----------------------------------------------------------------------------
(* C8: write_text, write_text_fmt and write_cdata_text called with an      *)
(* empty nesting stack or in state Empty panic, emitting nothing: no text  *)
(* is written at the top level, before the first element or after the      *)
(* last open element was closed.                                           *)

C8_NoTextAtTopLevel ==
    [][((Step("write_text") \/ Step("write_cdata_text"))
            /\ (depth_stack = <<>> \/ state = "Empty"))
          => (StepRet = "panic" /\ UNCHANGED fields)]_vars

C8_Witness ==
    /\ Panicked("write_text")
    /\ NumCalls("start_element") = 1
    /\ NumCalls("end_element") = 1
    /\ state = "Document"
    /\ writer # <<>>

----------------------------------------------------------------------------
(* C9: write_cdata_text with a text that contains ]]> panics in every      *)
(* state of the writer, before a byte is emitted and before any field of   *)
(* the writer changes.                                                     *)

C9_CDataTerminatorRejected ==
    [][(/\ Step("write_cdata_text")
        /\ LET text == calls'[Len(calls')].text
           IN  \E i \in 1..Len(text) : StartsWith(text, i, <<"]", "]", ">">>))
          => (StepRet = "panic" /\ UNCHANGED fields)]_vars

C9_Witness ==
    /\ Panicked("write_cdata_text")
    /\ state = "CData"
    /\ depth_stack # <<>>
    /\ NumCalls("write_cdata_text") = 2

----------------------------------------------------------------------------
(* C10: a text node written by write_text / write_text_fmt holds the input *)
(* with & replaced by &amp;, < by &lt; and > by &gt; and every other byte, *)
(* both quote characters included, copied unchanged and in order; the bytes *)
(* emitted before it are only the pending tag's > and the indentation.     *)

TextEntity(byte) ==
    CASE byte = "&" -> <<"&", "a", "m", "p", ";">>
      [] byte = "<" -> <<"&", "l", "t", ";">>
      [] byte = ">" -> <<"&", "g", "t", ";">>
      [] OTHER -> <<byte>>

RECURSIVE TextEscaped(_)
TextEscaped(text) ==
    IF text = <<>> THEN <<>>
    ELSE TextEntity(Head(text)) \o TextEscaped(Tail(text))

C10_TextEscaping ==
    [][((Step("write_text") \/ Step("write_text_fmt")) /\ StepRet = "ok")
          => LET e == TextEscaped(calls'[Len(calls')].text)
                 n == Len(Emitted)
             IN  /\ n >= Len(e)
                 /\ SubSeq(Emitted, n - Len(e) + 1, n) = e
                 /\ \A i \in 1..(n - Len(e)) : Emitted[i] \in {">", "\n", " ", "\t"}]_vars

C10_Witness ==
    /\ Returned("write_text_fmt")
    /\ Last.text = <<"&", "a", "m", "p", ";">>
    /\ Len(writer) > 9
    /\ SubSeq(writer, Len(writer) - 8, Len(writer))
          = <<"&", "a", "m", "p", ";", "a", "m", "p", ";">>

----------------------------------------------------------------------------
(* C11: an attribute value written by write_attribute / write_attribute_fmt *)
(* holds the input with &, < and > replaced by their entities, ' replaced  *)
(* by &apos; exactly when the quote style is single and " by &quot;        *)
(* exactly when it is double, the other quote character copied unchanged;  *)
(* the value between the delimiting quotes never contains the delimiter.   *)

AttrEntity(byte, single) ==
    CASE byte = "'" /\ single -> <<"&", "a", "p", "o", "s", ";">>
      [] byte = "\"" /\ ~single -> <<"&", "q", "u", "o", "t", ";">>
      [] OTHER -> TextEntity(byte)

RECURSIVE AttrEscaped(_, _)
AttrEscaped(text, single) ==
    IF text = <<>> THEN <<>>
    ELSE AttrEntity(Head(text), single) \o AttrEscaped(Tail(text), single)

QuoteChar == IF opt.use_single_quote THEN "'" ELSE "\""

\* The bytes of an attribute step between the delimiting quotes, for an
\* attribute written after a single space
AttrValueEmitted(name) == SubSeq(Emitted, Len(name) + 4, Len(Emitted) - 1)

----------------------------------------------------------------------------
(* C12: in the Text and the AttributeValue contexts, decoding the entities *)
(* of the emitted form gives the original text back, and the emitted form  *)
(* holds no literal < or > and no & other than the first byte of an        *)
(* entity.                                                                 *)

Entities ==
    {<<"&", "a", "m", "p", ";">>, <<"&", "l", "t", ";">>, <<"&", "g", "t", ";">>,
     <<"&", "q", "u", "o", "t", ";">>, <<"&", "a", "p", "o", "s", ";">>}

EntityChar(e) ==
    CASE e = <<"&", "a", "m", "p", ";">> -> "&"
      [] e = <<"&", "l", "t", ";">> -> "<"
      [] e = <<"&", "g", "t", ";">> -> ">"
      [] e = <<"&", "q", "u", "o", "t", ";">> -> "\""
      [] e = <<"&", "a", "p", "o", "s", ";">> -> "'"

\* The entities that start at position i of out
EntitiesAt(out, i) == {e \in Entities : StartsWith(out, i, e)}

\* An XML reader's view of character data: entities replaced by the
\* characters they stand for, from position i on
RECURSIVE Decoded(_, _)
Decoded(out, i) ==
    IF i > Len(out) THEN <<>>
    ELSE IF EntitiesAt(out, i) # {}
    THEN LET e == CHOOSE x \in EntitiesAt(out, i) : TRUE
         IN  <<EntityChar(e)>> \o Decoded(out, i + Len(e))
    ELSE <<out[i]>> \o Decoded(out, i + 1)

\* The bytes of a text step after the pending tag's > and the indentation
TextEmitted ==
    LET skip == (IF state = "Attributes" THEN 1 ELSE 0)
                + (IF opt.indent.kind # "None" /\ ~preserve_whitespaces
                   THEN 1 + Len(depth_stack) * (IF opt.indent.kind = "Spaces"
                                                THEN opt.indent.n ELSE 1)
                   ELSE 0)
    IN  SubSeq(Emitted, skip + 1, Len(Emitted))

RoundTrips(v, text) ==
    /\ Decoded(v, 1) = text
    /\ \A i \in 1..Len(v) :
         /\ v[i] \notin {"<", ">"}
         /\ v[i] = "&" => EntitiesAt(v, i) # {}

C12_EscapingRoundTrip ==
    [][/\ (Step("write_text_fmt") /\ StepRet = "ok")
             => RoundTrips(TextEmitted, calls'[Len(calls')].text)
       /\ (Step("write_attribute_fmt") /\ StepRet = "ok")
             => RoundTrips(AttrValueEmitted(calls'[Len(calls')].name),
                           calls'[Len(calls')].text)]_vars

C12_Witness ==
    /\ Returned("write_attribute_fmt")
    /\ ~opt.use_single_quote
    /\ Last.text = <<">", "\"">>
    /\ Decoded(SubSeq(writer, Len(writer) - 10, Len(writer) - 1), 1) = Last.text
    /\ SubSeq(writer, Len(writer) - 10, Len(writer))
          = <<"&", "g", "t", ";", "&", "q", "u", "o", "t", ";", "\"">>

----------------------------------------------------------------------------
(* C13: an element closed by end_element or end_document that received no  *)
(* child content (attributes are not child content) is closed by />; an    *)
(* element that received a child element, text, comment or CDATA is closed *)
(* by </name>.                                                             *)

AttributeOps ==
    {"write_attribute", "write_attribute_fmt", "write_attribute_raw",
     "set_preserve_whitespaces"}

\* The operation of the last call of the log that is neither an attribute
\* write nor a change of the preserve flag ("" if there is none)
RECURSIVE LastNodeOp(_)
LastNodeOp(log) ==
    IF log = <<>> THEN ""
    ELSE IF log[Len(log)].op \in AttributeOps
    THEN LastNodeOp(SubSeq(log, 1, Len(log) - 1))
    ELSE log[Len(log)].op

\* The innermost open element has received nothing since it was started
Childless == LastNodeOp(calls) = "start_element"

C13_SelfCloseIffChildless ==
    [][((Step("end_element") \/ Step("end_document"))
            /\ depth_stack # <<>> /\ StepRet = "ok")
          => LET name == depth_stack[Len(depth_stack)].element_name[1]
                 endTag == <<"<", "/">> \o name \o <<">">>
                 firstEnd == Find(Emitted, 1, <<"<", "/">>)
             IN  IF Childless
                 THEN /\ StartsWith(Emitted, 1, <<"/", ">">>)
                      /\ Step("end_element") => Emitted = <<"/", ">">>
                 ELSE /\ Find(Emitted, 1, <<"/", ">">>) = 0
                      /\ firstEnd > 0
                      /\ StartsWith(Emitted, firstEnd, endTag)
                      /\ Step("end_element")
                            => firstEnd + Len(endTag) - 1 = Len(Emitted)]_vars

C13_Witness ==
    /\ Returned("end_document")
    /\ Len(calls) = 4
    /\ calls[1].op = "start_element" /\ calls[1].name = <<"a">>
    /\ calls[2].op = "start_element" /\ calls[2].name = <<"b">>
    /\ calls[3].op = "write_attribute"
    /\ Find(writer, 1, <<"/", ">">>) > 0
    /\ Find(writer, 1, <<"<", "/", "a", ">">>) > 0

----------------------------------------------------------------------------
(* C14: with the self-closing option disabled a childless element is not   *)
(* emitted as <name/>: end_element emits > to terminate the start tag and  *)
(* then </name> on the next line at the element's own indentation.         *)

C14_NoSelfCloseWhenDisabled ==
    [][(/\ Step("end_element") /\ StepRet = "ok"
        /\ ~opt.enable_self_closing
        /\ depth_stack # <<>> /\ Childless /\ ~preserve_whitespaces)
          => LET k == Len(depth_stack)
                 name == depth_stack[k].element_name[1]
                 pad == [i \in 1..((k - 1) * opt.indent.n) |-> " "]
             IN  Emitted = <<">", "\n">> \o pad \o <<"<", "/">> \o name \o <<">">>]_vars

----------------------------------------------------------------------------
(* C15: write_comment, start_element, write_text and write_cdata_text      *)
(* called in state Attributes emit > exactly once before the first byte of *)
(* the new node and set has_children on the frame of the pending element,  *)
(* which stays on the stack below whatever the operation pushes; called in *)
(* any other state they emit no > before the node.                         *)

AutoCloseOps == {"write_comment", "start_element", "write_text", "write_cdata_text"}

\* The position in bytes of the first byte of the node: the first byte
\* that is neither > nor white space
RECURSIVE NodeStart(_, _)
NodeStart(bytes, i) ==
    IF i > Len(bytes) THEN i
    ELSE IF bytes[i] \in {">", "\n", " ", "\t"} THEN NodeStart(bytes, i + 1)
    ELSE i

GtBeforeNode(bytes) ==
    Cardinality({i \in 1..(NodeStart(bytes, 1) - 1) : bytes[i] = ">"})

C15_AutoClose ==
    [][((\E op \in AutoCloseOps : Step(op)) /\ StepRet = "ok")
          => LET k == Len(depth_stack)
             IN  IF state = "Attributes"
                 THEN /\ k > 0
                      /\ StartsWith(Emitted, 1, <<">">>)
                      /\ GtBeforeNode(Emitted) = 1
                      /\ Len(depth_stack') >= k
                      /\ depth_stack'[k] = [depth_stack[k] EXCEPT !.has_children = TRUE]
                      /\ SubSeq(depth_stack', 1, k - 1) = SubSeq(depth_stack, 1, k - 1)
                 ELSE /\ GtBeforeNode(Emitted) = 0
                      /\ SubSeq(depth_stack', 1, k) = depth_stack]_vars

C15_Witness ==
    /\ Returned("write_comment")
    /\ Len(calls) = 3
    /\ calls[1].op = "start_element"
    /\ calls[2].op = "write_attribute"
    /\ depth_stack[1].has_children
    /\ Find(writer, 1, <<">", "\n", " ", " ", "<", "!", "-", "-">>) > 0

----------------------------------------------------------------------------
(* C16: with the preserve flag false and element indent Spaces(N) or Tabs, *)
(* a start tag, text node or comment written while the stack holds d       *)
(* frames is preceded by a newline (none in state Empty) and exactly d     *)
(* indent units, and the end tag of an element with children by a newline  *)
(* and exactly d' units, d' the stack length after the pop.                *)

Unit(indent) ==
    IF indent.kind = "Spaces" THEN [i \in 1..indent.n |-> " "]
    ELSE IF indent.kind = "Tabs" THEN <<"\t">>
    ELSE <<>>

RECURSIVE Units(_, _)
Units(indent, d) == IF d <= 0 THEN <<>> ELSE Unit(indent) \o Units(indent, d - 1)

Indenting == opt.indent.kind # "None" /\ ~preserve_whitespaces

\* A node written by the step starts on a fresh line behind d units
NodeIndented ==
    LET lead == (IF state = "Attributes" THEN <<">">> ELSE <<>>)
                \o (IF state = "Empty" THEN <<>> ELSE <<"\n">>)
                \o Units(opt.indent, Len(depth_stack))
    IN  /\ StartsWith(Emitted, 1, lead)
        /\ Len(Emitted) > Len(lead)
        /\ Emitted[Len(lead) + 1] \notin {" ", "\t", "\n"}

\* The end tag written by end_element for the innermost element; with
\* cdataClose, the ]]> of an open CDATA section stands before the tag
EndTagIndented(cdataClose) ==
    LET k == Len(depth_stack)
        name == depth_stack[k].element_name[1]
    IN  Emitted = <<"\n">> \o Units(opt.indent, k - 1)
                    \o (IF cdataClose /\ state = "CData" THEN <<"]", "]", ">">> ELSE <<>>)
                    \o <<"<", "/">> \o name \o <<">">>

IndentationRule(cdataClose) ==
    /\ ((Step("start_element") \/ Step("write_text") \/ Step("write_comment"))
           /\ StepRet = "ok" /\ Indenting)
          => NodeIndented
    /\ (Step("end_element") /\ StepRet = "ok" /\ Indenting
           /\ depth_stack # <<>> /\ ~Childless)
          => EndTagIndented(cdataClose)

C16_Indentation == [][IndentationRule(FALSE)]_vars

(* C16 as amended: the same, except that when the element is closed in     *)
(* state CData the ]]> that closes the CDATA section is written between    *)
(* the d' indent units and the end tag.                                    *)

C16_IndentationAmended == [][IndentationRule(TRUE)]_vars

C16_Witness ==
    /\ Returned("end_element")
    /\ Len(calls) = 4
    /\ calls[3].op = "write_cdata_text"
    /\ opt.indent.kind = "Tabs"
    /\ Len(depth_stack) = 1
    /\ SubSeq(writer, Len(writer) - 8, Len(writer))
          = <<"\n", "\t", "]", "]", ">", "<", "/", "b", ">">>

----------------------------------------------------------------------------
(* C17: while the preserve flag is true, start_element, write_attribute*,  *)
(* write_text*, write_cdata_text, write_comment, end_element and           *)
(* end_document emit no newline and no indentation of their own, at every  *)
(* depth and for every element indent and attribute indent: the only white *)
(* space emitted is the single space before an attribute name.             *)

PreserveOps ==
    {"start_element", "write_attribute", "write_attribute_raw", "write_text",
     "write_cdata_text", "write_comment", "end_element", "end_document"}

C17_PreserveSuppressesWhitespace ==
    [][((\E op \in PreserveOps : Step(op)) /\ StepRet = "ok" /\ preserve_whitespaces)
          => \A i \in 1..Len(Emitted) :
               /\ Emitted[i] \notin {"\n", "\t"}
               /\ Emitted[i] = " "
                     => /\ i = 1
                        /\ Step("write_attribute") \/ Step("write_attribute_raw")]_vars

----------------------------------------------------------------------------
(* C18: with element indentation enabled, the output ends with exactly one *)
(* newline, emitted by end_document after all elements are closed; with    *)
(* indent None end_document emits no newline.                              *)

TrailingNewline ==
    LET n == Len(writer')
    IN  /\ Emitted # <<>>
        /\ writer'[n] = "\n"
        /\ n > 1 => writer'[n - 1] # "\n"
        /\ Len(Emitted) > 1 => Emitted[Len(Emitted) - 1] = ">"

NoNewline == \A i \in 1..Len(Emitted) : Emitted[i] # "\n"

C18_TrailingNewline ==
    [][(Step("end_document") /\ StepRet = "ok")
          => IF opt.indent.kind # "None" THEN TrailingNewline ELSE NoNewline]_vars

(* C18 as amended: the trailing newline is emitted when element            *)
(* indentation is enabled and the preserve flag is false at the call; with *)
(* indent None, or with the preserve flag true, end_document emits no      *)
(* newline.                                                                *)

C18_TrailingNewlineAmended ==
    [][(Step("end_document") /\ StepRet = "ok")
          => IF Indenting THEN TrailingNewline ELSE NoNewline]_vars

C18_Witness ==
    /\ Returned("end_document")
    /\ NumCalls("start_element") = 2
    /\ NumCalls("set_preserve_whitespaces") = 0
    /\ opt.indent.kind = "Spaces"
    /\ SubSeq(writer, Len(writer) - 4, Len(writer)) = <<"<", "/", "a", ">", "\n">>

----------------------------------------------------------------------------
(* C19: with attribute indent enabled and the preserve flag false, an      *)
(* attribute of an element at stack length d is preceded by a newline,     *)
(* d - 1 element-indent units (none for element indent None) and exactly   *)
(* one attribute-indent unit; with attribute indent None it is preceded by *)
(* exactly one space.                                                      *)

C19_AttributeIndentation ==
    [][((Step("write_attribute") \/ Step("write_attribute_raw")) /\ StepRet = "ok")
          => LET name == calls'[Len(calls')].name
                 d == Len(depth_stack)
             IN  /\ opt.attributes_indent.kind = "None"
                       => StartsWith(Emitted, 1, <<" ">> \o name \o <<"=">>)
                 /\ (opt.attributes_indent.kind # "None" /\ ~preserve_whitespaces)
                       => StartsWith(Emitted, 1,
                              <<"\n">> \o Units(opt.indent, d - 1)
                                  \o Unit(opt.attributes_indent) \o name \o <<"=">>)]_vars

C19_Witness ==
    /\ Returned("write_attribute")
    /\ Len(depth_stack) = 2
    /\ ~preserve_whitespaces
    /\ opt.indent.kind = "Tabs"
    /\ opt.attributes_indent.kind = "Spaces"
    /\ SubSeq(writer, Len(writer) - 7, Len(writer))
          = <<"\n", "\t", " ", "k", "=", "\"", "x", "\"">>

----------------------------------------------------------------------------
(* C20: the output has at most one top-level element; no call sequence     *)
(* accepted by the writer emits a second top-level element.                *)

\* The number of start tags in the output from position i that stand
\* outside every element, n counted so far, depth elements being open
RECURSIVE TopLevel(_, _, _, _)
TopLevel(out, i, depth, n) ==
    LET Skip(open, close) ==
            LET j == Find(out, i + Len(open), close)
            IN  IF j = 0 THEN n ELSE TopLevel(out, j + Len(close), depth, n)
    IN
    IF i > Len(out) THEN n
    ELSE IF StartsWith(out, i, <<"<", "!", "-", "-">>)
    THEN Skip(<<"<", "!", "-", "-">>, <<"-", "-", ">">>)
    ELSE IF StartsWith(out, i, <<"<", "!", "[", "C", "D", "A", "T", "A", "[">>)
    THEN Skip(<<"<", "!", "[", "C", "D", "A", "T", "A", "[">>, <<"]", "]", ">">>)
    ELSE IF StartsWith(out, i, <<"<", "?">>)
    THEN Skip(<<"<", "?">>, <<"?", ">">>)
    ELSE IF StartsWith(out, i, <<"<", "/">>)
    THEN TopLevel(out, NameEnd(out, i + 2) + 1, depth - 1, n)
    ELSE IF out[i] = "<"
    THEN LET t == TagEnd(out, NameEnd(out, i + 1), "")
             n1 == IF depth = 0 THEN n + 1 ELSE n
         IN  IF t = 0 THEN n1
             ELSE IF out[t - 1] = "/" THEN TopLevel(out, t + 1, depth, n1)
             ELSE TopLevel(out, t + 1, depth + 1, n1)
    ELSE TopLevel(out, i + 1, depth, n)

TopLevelElements(out) == TopLevel(out, 1, 0, 0)

Accepted == \A i \in 1..Len(calls) : calls[i].ret = "ok"

NodeInsideCData(log) ==
    \E i, j \in 1..Len(log) :
        /\ i < j
        /\ log[i].op = "write_cdata_text"
        /\ log[j].op \in {"write_text", "write_comment", "start_element"}
        /\ \A k \in (i + 1)..(j - 1) : log[k].op = "set_preserve_whitespaces"

AtTopLevel == Step("start_element") /\ depth_stack = <<>>

----------------------------------------------------------------------------
(* C21: comment and CDATA content is passed through verbatim: a comment is *)
(* emitted as <!-- followed by the unmodified text followed by -->, and    *)
(* write_cdata_text emits the unmodified text inside the section; & < >    *)
(* and quotes are never substituted in these two contexts.                 *)

\* What precedes a node written by the step: the > that ends a pending
\* start tag, then the newline and the indentation
NodeLead(opener) ==
    (IF state = "Attributes" THEN <<">">> ELSE <<>>)
        \o opener
        \o (IF Indenting /\ state # "Empty" THEN <<"\n">> ELSE <<>>)
        \o (IF Indenting
            THEN Units(opt.indent, Len(depth_stack)) ELSE <<>>)

CDataStart == <<"<", "!", "[", "C", "D", "A", "T", "A", "[">>

----------------------------------------------------------------------------
(* C22: write_comment_fmt escapes forbidden double hyphens: for every      *)
(* comment text, the body emitted between <!-- and --> contains no --.     *)

CommentBody(out) ==
    LET p == Find(out, 1, <<"<", "!", "-", "-">>)
    IN  SubSeq(out, p + 4, Len(out) - 3)

C22_NoDoubleHyphenInComment ==
    [][((Step("write_comment") \/ Step("write_comment_fmt")) /\ StepRet = "ok")
          => ~contains(CommentBody(Emitted), <<"-", "-">>)]_vars

----------------------------------------------------------------------------
(* C23: if a sink write fails with classification K during a public        *)
(* operation, on a direct markup write or on a write made through the      *)
(* formatted content path, the operation returns an I/O error whose        *)
(* classification is K and does not abort.                                 *)

C23_SinkFailureIsReturned ==
    [][(Len(calls') = Len(calls) + 1 /\ calls'[Len(calls')].sink # None)
          => /\ StepRet = "io"
             /\ calls'[Len(calls')].kind = calls'[Len(calls')].sink]_vars

\* The write of the text of a text node failed inside write_str, after the
\* > of the start tag, the newline and the indentation were written
C23_Witness ==
    /\ Len(calls) = 2
    /\ Last.op = "write_text_fmt"
    /\ Last.sink = "WriteZero"
    /\ Last.ret = "io"
    /\ Last.kind = "WriteZero"
    /\ writer = <<"<", "a", ">", "\n", " ">>

----------------------------------------------------------------------------
(* C24: lifecycle transitions (no sink failures): after start_element the  *)
(* state is Attributes; write_attribute* leaves it Attributes; after       *)
(* write_declaration, write_comment, write_text* and end_element it is     *)
(* Document; after write_cdata_text it is CData; the state Empty is never  *)
(* re-entered once an operation other than set_preserve_whitespaces has    *)
(* completed.                                                              *)

C24_LifecycleTransitions ==
    [][(Len(calls') = Len(calls) + 1 /\ StepRet = "ok")
          => LET op == calls'[Len(calls')].op
             IN  /\ op = "start_element" => state' = "Attributes"
                 /\ op \in {"write_attribute", "write_attribute_raw"}
                       => state = "Attributes" /\ state' = "Attributes"
                 /\ op \in {"write_declaration", "write_comment", "write_text",
                            "end_element"}
                       => state' = "Document"
                 /\ op = "write_cdata_text" => state' = "CData"
                 /\ op \notin {"set_preserve_whitespaces", "end_document"}
                       => state' # "Empty"
                 /\ state # "Empty" => state' # "Empty"]_vars

C24_Witness ==
    /\ Len(calls) = 4
    /\ calls[1].op = "start_element"
    /\ calls[2].op = "write_attribute"
    /\ calls[3].op = "write_cdata_text"
    /\ calls[4].op = "set_preserve_whitespaces"
    /\ Accepted
    /\ state = "CData"

----------------------------------------------------------------------------
(* C25: consecutive write_cdata_text calls inside the same element, with   *)
(* nothing else in between, emit exactly one <![CDATA[ opener (on the      *)
(* first call), and the section is closed by exactly one ]]> emitted       *)
(* immediately before the element's end tag when end_element or            *)
(* end_document closes that element.                                       *)

\* The number of occurrences of pat in out at or after position i
RECURSIVE CountFrom(_, _, _)
CountFrom(out, pat, i) ==
    LET j == Find(out, i, pat)
    IN  IF j = 0 THEN 0 ELSE 1 + CountFrom(out, pat, j + Len(pat))

Count(out, pat) == CountFrom(out, pat, 1)

\* The call before the step was an accepted write_cdata_text
AfterCData == calls # <<>> /\ Last.op = "write_cdata_text" /\ Last.ret = "ok"

\* The newline and indentation, the ]]> and the end tag of the innermost element
SectionClose ==
    LET k == Len(depth_stack)
    IN  (IF Indenting THEN <<"\n">> \o Units(opt.indent, k - 1) ELSE <<>>)
            \o CDataEnd \o <<"<", "/">> \o depth_stack[k].element_name[1] \o <<">">>

C25_OneSectionPerRun ==
    [][/\ (Step("write_cdata_text") /\ StepRet = "ok")
             => /\ AfterCData => Count(Emitted, CDataStart) = 0
                /\ state # "CData" => Count(Emitted, CDataStart) = 1
                /\ Count(Emitted, CDataEnd) = 0
       /\ (Step("end_element") /\ StepRet = "ok" /\ AfterCData)
             => Emitted = SectionClose
       /\ (Step("end_document") /\ StepRet = "ok" /\ AfterCData)
             => /\ StartsWith(Emitted, 1, SectionClose)
                /\ Count(Emitted, CDataEnd) = 1]_vars

C25_Witness ==
    /\ Returned("end_element")
    /\ Len(calls) = 4
    /\ calls[2].op = "write_cdata_text"
    /\ calls[3].op = "write_cdata_text"
    /\ writer = <<"<", "a", ">">> \o CDataStart \o <<"x", "x">> \o CDataEnd
                   \o <<"<", "/", "a", ">">>

----------------------------------------------------------------------------
(* C26: every CDATA section the writer opens is closed: for every call     *)
(* sequence ending in end_document, each emitted <![CDATA[ is followed by  *)
(* a matching ]]> before any text node, comment, start tag or end tag, so  *)
(* the final output holds as many openers as closers; also when            *)
(* write_text, write_comment or start_element is called in state CData.    *)

C26_EverySectionClosed ==
    (status = "finished" /\ Accepted)
        => Count(writer, CDataStart) = Count(writer, CDataEnd)

----------------------------------------------------------------------------
(* C27: the content of an emitted CDATA section never contains the         *)
(* terminator ]]> before the closer written by the writer, for every       *)
(* sequence of accepted write_cdata_text calls and every indent and        *)
(* preserve-whitespace configuration, also when the terminator would be    *)
(* formed by the concatenation of several merged calls.                    *)

\* The position of the last occurrence of pat in out, 0 if none
RECURSIVE LastFrom(_, _, _)
LastFrom(out, pat, i) ==
    LET j == Find(out, i, pat)
    IN  IF j = 0 THEN 0
        ELSE LET l == LastFrom(out, pat, j + 1) IN IF l = 0 THEN j ELSE l

\* The content written so far into the section that is open
OpenSection ==
    SubSeq(writer, LastFrom(writer, CDataStart, 1) + Len(CDataStart), Len(writer))

C27_NoTerminatorInSection ==
    (state = "CData" /\ Accepted) => ~contains(OpenSection, CDataEnd)

----------------------------------------------------------------------------
(* C28: between public calls (no sink failures), in state Attributes the   *)
(* stack is non-empty and its top frame has has_children = false; in state *)
(* Document or CData with a non-empty stack the top frame has has_children *)
(* = true; has_children never goes back from true to false; and            *)
(* end_element emits /> exactly when it is called in state Attributes.     *)

FrameInvariant(st, stack) ==
    /\ st = "Attributes"
          => stack # <<>> /\ ~stack[Len(stack)].has_children
    /\ (st \in {"Document", "CData"} /\ stack # <<>>)
          => stack[Len(stack)].has_children

C28_ChildrenFlag ==
    [][/\ FrameInvariant(state, depth_stack)
       /\ FrameInvariant(state', depth_stack')
       /\ \A i \in 1..Len(depth_stack) :
             (i <= Len(depth_stack') /\ depth_stack[i].has_children)
                => depth_stack'[i].has_children
       /\ (Step("end_element") /\ StepRet = "ok")
             => (contains(Emitted, <<"/", ">">>) <=> state = "Attributes")]_vars

C28_Witness ==
    /\ Returned("end_element")
    /\ Len(calls) = 3
    /\ calls[2].op = "start_element"
    /\ state = "Document"
    /\ Len(depth_stack) = 1
    /\ depth_stack[1].has_children
    /\ SubSeq(writer, Len(writer) - 2, Len(writer)) = calls[2].name \o <<"/", ">">>

----------------------------------------------------------------------------
(* C29: the placeholder-frame push of write_comment_fmt and                *)
(* write_text_fmt_impl is unreachable: in every execution, also after      *)
(* earlier operations returned a sink I/O error, no frame with name = None *)
(* is ever on the nesting stack, and end_element never aborts on a frame   *)
(* without an element name.                                                *)

C29_NoPlaceholderFrame ==
    /\ \A i \in 1..Len(depth_stack) : depth_stack[i].element_name # Nothing
    /\ ~Panicked("end_element")
    /\ ~Panicked("end_document")

----------------------------------------------------------------------------
(* C30: no public operation ever aborts in take_err: for every behaviour   *)
(* of the sink and of the formatter of the caller's value, whenever a      *)
(* formatted content write (write_comment_fmt, write_attribute_fmt,        *)
(* write_text_fmt, write_cdata_text) reports failure, an ErrorKind has     *)
(* been recorded beforehand, so the failure is returned as an I/O error.   *)

\* The step is a formatted content write whose own precondition holds, so
\* that it can only abort inside take_err
FormattedWrite ==
    \/ Step("write_comment_fmt")
    \/ Step("write_attribute_fmt") /\ state = "Attributes"
    \/ Step("write_text_fmt") /\ state # "Empty" /\ depth_stack # <<>>
    \/ Step("write_cdata_text") /\ state # "Empty" /\ depth_stack # <<>>

C30_NoAbortInTakeErr ==
    [][FormattedWrite => StepRet # "panic"]_vars

----------------------------------------------------------------------------
(* C31: when a public operation returns a sink I/O error, the nesting      *)
(* stack is the same as before the call (no frame pushed, popped or lost), *)
(* so that a failed start_element has not opened an element and a failed   *)
(* end_element can be retried to close the same element.                   *)

\* The element names of the frames of a stack, bottom first
FrameNames(stack) == [i \in 1..Len(stack) |-> stack[i].element_name]

C31_StackKeptOnError ==
    [][(Len(calls') = Len(calls) + 1 /\ StepRet = "io")
          => FrameNames(depth_stack') = FrameNames(depth_stack)]_vars

====
